---------------------------- MODULE Spec2Model ----------------------------
(***************************************************************************)
(* A model of the OpenEmu adapter around the bsnes core: BSNESGameCore     *)
(* (src/BSNESGameCore.mm) and its platform object Program (src/program.mm),*)
(* with the cheat decoder OEBSNESCheatDecodeSNES (src/unnamed/part_002).   *)
(*                                                                         *)
(* Strings are sequences of one-character strings, so that slicing,        *)
(* transforming and comparing them is computed as the code computes it.    *)
(***************************************************************************)
EXTENDS Integers, Sequences, FiniteSets, TLC

VARIABLES
    \* ---- OEBSNESCheatDecodeSNES(string& code), called on its own
    code,           \* the in/out argument
    codeIn,         \* the argument as it was passed in
    decodeResult,   \* "pending" before the call, then "true" or "false"
    decodeCalls,    \* calls of the decoder made on the string so far
    firstCode,      \* the string as the first call left it
    \* ---- BSNESGameCore and the core it configures
    pc,             \* "idle", or "loading" while emulator->load() calls back
    lastOp,         \* the host operation that ran last
    displayModes,   \* _displayModes: key -> "nil" (no entry), "YES" or "NO"
    config,         \* what emulator->configure() was last given, by setting
    overscan,       \* program->overscan
    activeCheats,   \* _activeCheats
    cheatList,      \* the list last given to emulator->cheats()
    cheatsCalls,    \* emulator->cheats() calls made by the last operation
    connectCalls,   \* emulator->connect() calls made by the last operation
    lastSetCheat,   \* per cheat, the type and enabled flag of its latest setCheat
    \* ---- Program
    superFamicom,   \* the game record
    failedLoadingAtLeastOneRequiredFile,
    lastFailedBiosLoad,
    \* ---- loadFileAtPath: its arguments, its surroundings and what it returned
    errSupplied,    \* the caller passed an error pointer
    errOut,         \* what the caller's NSError* holds
    loadResult,     \* "none", "YES" or "NO"
    biosHasFile,    \* the BIOS directory holds the firmware dump of the game
    opens,          \* Program::open calls made by the load under way
    reqMissed,      \* a required open of this load returned no file
    fwReqMissed,    \* so did a required open of the game's firmware
    lastOpen,       \* the last open of the cartridge's time.rtc in this load and
                    \* whether it returned a file
    prevFailed,     \* whether the loadFileAtPath before the last one returned NO
    \* ---- Program::videoFrame
    screenRect,     \* core->screenRect, <<x, y, width, height>>
    frame,          \* what the last videoFrame copied
    \* ---- save states
    coreState,      \* the bytes emulator->serialize() produces now
    files,          \* the save state files, by name
    blockCalls,     \* the completion handler's calls in the last operation
    stateOp,        \* the last save state operation and what it passed on
    \* ---- the battery save
    base_name,      \* Program::base_name
    save,           \* batterySavesDirectoryPath, NoPath when there is none
    romFile,        \* the ROM of base_name: its directory and its file name
    savePath,       \* the path last opened for save.ram
    \* ---- input
    pad,            \* core->pad[port][button]
    lastEvent,      \* per port and button, the last event since the last load
    events,         \* button events delivered so far
    polled,         \* what the Program::inputPoll calls made since the last event
                    \* or load returned, by port, device and input
    \* ---- the lifetime of the cores of one process
    cores,          \* each BSNESGameCore: "unborn", "alive" or "dead"
    emulator,       \* the file-static emulator pointer: the core whose init
                    \* allocated the object it points to
    program,        \* the file-static program pointer, likewise
    heap,           \* per allocating core, how often its emulator object and
                    \* its Program object have been deleted
    staleUse,       \* a method has used an object after its deletion
    \* ---- the display modes of the revision that validates them
    validatedModes, \* _displayModes: a dictionary, key -> [class, value]
    modeInfoIn,     \* the dictionary last passed to setDisplayModeInfo
    modeConfig      \* what loadConfiguration last gave emulator->configure(), by setting

decodeVars == <<code, codeIn, decodeResult, decodeCalls, firstCode>>

hostVars == <<pc, lastOp, displayModes, config, overscan, activeCheats, cheatList,
              cheatsCalls, connectCalls, lastSetCheat>>

programVars == <<superFamicom, failedLoadingAtLeastOneRequiredFile, lastFailedBiosLoad>>

loadVars == <<errSupplied, errOut, loadResult, biosHasFile, opens,
              reqMissed, fwReqMissed, lastOpen, prevFailed>>

videoVars == <<screenRect, frame>>

stateVars == <<coreState, files, blockCalls, stateOp>>

pathVars == <<base_name, save, romFile, savePath>>

inputVars == <<pad, lastEvent, events, polled>>

lifeVars == <<cores, emulator, program, heap, staleUse>>

modeVars == <<validatedModes, modeInfoIn, modeConfig>>

vars == <<decodeVars, hostVars, programVars, loadVars, videoVars, stateVars, pathVars,
          inputVars, lifeVars, modeVars>>

-----------------------------------------------------------------------------
(* Characters and numbers *)

HexDigits == <<"0","1","2","3","4","5","6","7","8","9","a","b","c","d","e","f">>

HexChars == {HexDigits[i] : i \in 1..16}

\* the value of a hexadecimal digit, 0 for any other character
HexVal(c) == IF c \in HexChars THEN (CHOOSE i \in 1..16 : HexDigits[i] = c) - 1 ELSE 0

RECURSIVE Pow2(_)
Pow2(n) == IF n = 0 THEN 1 ELSE 2 * Pow2(n - 1)

Bit(r, k) == (r \div Pow2(k)) % 2

\* uint32_t r = toHex(code) for a code of eight hexadecimal digits: r is kept as
\* its eight digits (so that no number of the model needs 32 bits), and
\* these read it: bit k of r, r >> 24, r >> 8 and r & 0xff
RBit(digits, k) == Bit(HexVal(digits[8 - (k \div 4)]), k % 4)

\* nall toHex: the number a string of hexadecimal digits denotes
RECURSIVE toHex(_)
toHex(s) == IF s = <<>> THEN 0
            ELSE 16 * toHex(SubSeq(s, 1, Len(s) - 1)) + HexVal(s[Len(s)])

\* hex with upper-case digits
RECURSIVE hexUpper(_, _)
hexUpper(value, precision) ==
    IF precision = 0 THEN <<>>
    ELSE Append(hexUpper(value \div 16, precision - 1),
                <<"0","1","2","3","4","5","6","7","8","9","A","B","C","D","E","F">>
                  [(value % 16) + 1])

\* nall hex(value, precision): lower-case digits, padded with '0' on the left
RECURSIVE hex(_, _)
hex(value, precision) ==
    IF precision = 0 THEN <<>>
    ELSE Append(hex(value \div 16, precision - 1), HexDigits[(value % 16) + 1])

\* nall string::slice(offset, length)
slice(s, offset, length) == SubSeq(s, offset + 1, offset + length)

\* nall string::transform(from, to): each character found in from becomes the
\* character at the same place in to
transform(s, from, to) ==
    [i \in 1..Len(s) |->
        IF \E j \in 1..Len(from) : from[j] = s[i]
        THEN to[CHOOSE j \in 1..Len(from) : from[j] = s[i]]
        ELSE s[i]]

\* the validation loop: every character is '0'..'9' or 'a'..'f'
AllHex(s) == \A i \in 1..Len(s) : s[i] \in HexChars

-----------------------------------------------------------------------------
(* OEBSNESCheatDecodeSNES *)

GenieFrom == <<"d","f","4","7","0","9","1","5","6","b","c","8","a","2","3","e">>

\* GenieSrcBit[d + 1] is the bit of r that becomes bit d of the address
GenieSrcBit == <<6, 7, 8, 9, 16, 17, 18, 19, 14, 15, 0, 1,
                 20, 21, 22, 23, 2, 3, 4, 5, 10, 11, 12, 13>>

RECURSIVE GenieAddressFrom(_, _)
GenieAddressFrom(r, d) ==
    IF d = 24 THEN 0
    ELSE RBit(r, GenieSrcBit[d + 1]) * Pow2(d) + GenieAddressFrom(r, d + 1)

\* the address taken as the low 24 bits of r, not rearranged
GenieAddressPlain(r) == toHex(slice(r, 2, 6))

GenieAddress(r) == GenieAddressFrom(r, 0)

\* the Game Genie branch, entered when size = 9 and code[4] = '-'
DecodeGameGenie(c) ==
    LET stripped == slice(c, 0, 4) \o slice(c, 5, 4)
        r == transform(stripped, GenieFrom, HexDigits)
    IN  IF ~AllHex(stripped)
        THEN [ok |-> FALSE, code |-> stripped]
        ELSE [ok |-> TRUE,
              code |-> hex(GenieAddress(r), 6) \o <<"=">>
                       \o hex(toHex(slice(r, 0, 2)), 2)]

\* a Pro Action Replay branch that decodes without validating the digits
DecodeActionReplayUnvalidated(c) ==
    [ok |-> TRUE,
     code |-> hex(toHex(slice(c, 0, 6)), 6) \o <<"=">> \o hex(toHex(slice(c, 6, 2)), 2)]

\* the Pro Action Replay branch, entered when size = 8
DecodeActionReplay(c) ==
    IF ~AllHex(c)
    THEN [ok |-> FALSE, code |-> c]
    ELSE [ok |-> TRUE,
          code |-> hex(toHex(slice(c, 0, 6)), 6) \o <<"=">>
                   \o hex(toHex(slice(c, 6, 2)), 2)]

\* the address=data branch, entered when size = 9 and code[6] = '='
DecodeAddressData(c) ==
    [ok |-> AllHex(slice(c, 0, 6) \o slice(c, 7, 2)), code |-> c]

\* the address=compare?data branch, entered when size = 12, code[6] = '=' and
\* code[9] = '?'
DecodeAddressCompareData(c) ==
    [ok |-> AllHex(slice(c, 0, 6) \o slice(c, 7, 2) \o slice(c, 10, 2)), code |-> c]

\* the result and the final value of the argument
OEBSNESCheatDecodeSNES(c) ==
    IF Len(c) = 9 /\ c[5] = "-" THEN DecodeGameGenie(c)
    ELSE IF Len(c) = 8 THEN DecodeActionReplay(c)
    ELSE IF Len(c) = 9 /\ c[7] = "=" THEN DecodeAddressData(c)
    ELSE IF Len(c) = 12 /\ c[7] = "=" /\ c[10] = "?" THEN DecodeAddressCompareData(c)
    ELSE [ok |-> FALSE, code |-> c]


-----------------------------------------------------------------------------
(* nall string::downcase *)

UpperChars == <<"A","B","C","D","E","F","G","H","I","J","K","L","M",
                "N","O","P","Q","R","S","T","U","V","W","X","Y","Z">>

LowerChars == <<"a","b","c","d","e","f","g","h","i","j","k","l","m",
                "n","o","p","q","r","s","t","u","v","w","x","y","z">>

downcase(s) == transform(s, UpperChars, LowerChars)

-----------------------------------------------------------------------------
(* BSNESGameCore: display modes and the core's configuration *)

BlurKey == "bsnes/Video/BlurEmulation"
ColorKey == "bsnes/Video/ColorEmulation"
SpriteKey == "bsnes/Hacks/PPU/NoSpriteLimit"
OverscanKey == "hide_overscan"

DisplayKeys == {BlurKey, ColorKey, SpriteKey, OverscanKey}

\* the keys that start with "bsnes/", and each without that prefix
CoreKeys == {BlurKey, ColorKey, SpriteKey}

keyNoPrefix(k) ==
    CASE k = BlurKey -> "Video/BlurEmulation"
      [] k = ColorKey -> "Video/ColorEmulation"
      [] k = SpriteKey -> "Hacks/PPU/NoSpriteLimit"

\* -[NSNumber boolValue]; a message to nil answers NO
boolValue(v) == v = "YES"

BoolString(b) == IF b THEN "true" ELSE "false"

ConfigNames == {"Hacks/Hotfixes", "Hacks/PPU/Fast", "Hacks/DSP/Fast",
                "Hacks/PPU/RenderCycle", "Hacks/Entropy", "Video/BlurEmulation",
                "Video/ColorEmulation", "Hacks/PPU/NoSpriteLimit"}

\* the dictionary literal of setDisplayModeInfo
DisplayDefaults ==
    [k \in DisplayKeys |-> IF k \in {ColorKey, OverscanKey} THEN "YES" ELSE "NO"]

\* addEntriesFromDictionary: an entry of info replaces the default
setDisplayModeInfoResult(info) ==
    [k \in DisplayKeys |-> IF info[k] = "nil" THEN DisplayDefaults[k] ELSE info[k]]

\* the mode names displayModes lists, and the key of each
ModeKey(mode) ==
    CASE mode = "Blur Emulation" -> BlurKey
      [] mode = "Color Emulation" -> ColorKey
      [] mode = "Hide Overscan" -> OverscanKey
      [] mode = "Disable Sprite Limit (requires reset)" -> SpriteKey

ModeNames == {"Blur Emulation", "Color Emulation", "Hide Overscan",
              "Disable Sprite Limit (requires reset)"}

\* configEmulator: the configuration it leaves, given the display modes
configEmulatorConfig(cfg, modes) ==
    [n \in ConfigNames |->
        IF n \in {"Hacks/Hotfixes", "Hacks/PPU/Fast"} THEN "true"
        ELSE IF \E k \in CoreKeys : keyNoPrefix(k) = n /\ modes[k] # "nil"
             THEN BoolString(boolValue(modes[CHOOSE k \in CoreKeys : keyNoPrefix(k) = n]))
             ELSE cfg[n]]

\* configEmulator: program->overscan with hide_overscan stored as the negation
\* of overscan
configEmulatorOverscanSame(modes) == boolValue(modes[OverscanKey])

\* configEmulator: program->overscan
configEmulatorOverscan(modes) == ~boolValue(modes[OverscanKey])

\* aspectSize
aspectSize == IF ~overscan THEN <<64, 49>> ELSE <<8, 7>>

\* bufferSize
bufferSize == <<512, 480>>

-----------------------------------------------------------------------------
(* BSNESGameCore: cheats *)

\* a setCheat that leaves the colons in
removeColonsKept(s) == s

\* stringByReplacingOccurrencesOfString:@":" withString:@""
RECURSIVE removeColons(_)
removeColons(s) ==
    IF s = <<>> THEN <<>>
    ELSE IF Head(s) = ":" THEN removeColons(Tail(s))
    ELSE <<Head(s)>> \o removeColons(Tail(s))

\* componentsSeparatedByString:@"+", as the set of the components
RECURSIVE componentsFrom(_, _)
componentsFrom(s, cur) ==
    IF s = <<>> THEN {cur}
    ELSE IF Head(s) = "+" THEN {cur} \cup componentsFrom(Tail(s), <<>>)
    ELSE componentsFrom(Tail(s), Append(cur, Head(s)))

components(s) == componentsFrom(s, <<>>)

\* setCheat: the codes named by the call
setCheatCodes(c, type) ==
    components(IF type = "Action Replay" THEN removeColons(c) ELSE c)

\* setCheat: _activeCheats after the call
setCheatActive(active, c, type, enabled) ==
    IF enabled THEN active \cup setCheatCodes(c, type)
    ELSE active \ setCheatCodes(c, type)

\* the cheats the host sends, as it writes them, and their types
RawCheats == { <<"D","E","A","D","-","B","E","E","F">>,
               <<"7","E","0","0","1","F",":","9","A">>,
               <<"7","e","0","0","1","f","=","9","a","+","x","y","z">>,
               <<"D","E","A","D","-","B","E","E","F","+","x","y","z">> }

\* a cheat that has a code in common with another cheat
SharedCheat == <<"D","E","A","D","-","B","E","E","F","+","x","y","z">>

\* no setCheat call made yet for any cheat
NoSetCheat == [c \in RawCheats |-> [called |-> FALSE, type |-> "", enabled |-> FALSE]]

CheatTypes == {"Game Genie", "Action Replay"}

\* the codes _activeCheats can hold
CheatCodes == UNION { setCheatCodes(c, type) : c \in RawCheats, type \in CheatTypes }

\* loadCheats: the decoded form of one cheat and whether it decoded
decodedCheat(cheat) == OEBSNESCheatDecodeSNES(downcase(cheat))

\* decodedCheat of each code _activeCheats can hold
DecodedCheats == [c \in CheatCodes |-> decodedCheat(c)]

\* the orders in which a finite set can be enumerated, each element once
RECURSIVE Enumerations(_)
Enumerations(S) ==
    IF S = {} THEN {<<>>}
    ELSE UNION { { <<x>> \o rest : rest \in Enumerations(S \ {x}) } : x \in S }

\* a loadCheats that gives up at the first cheat that does not decode
RECURSIVE newCheatListUntilFailure(_, _)
newCheatListUntilFailure(order, decoded) ==
    IF order = <<>> THEN <<>>
    ELSE IF decoded[Head(order)].ok
         THEN <<decoded[Head(order)].code>> \o newCheatListUntilFailure(Tail(order), decoded)
         ELSE <<>>

\* loadCheats: newCheatList after the loop has gone through the cheats in a
\* given order, decoded[c] being what OEBSNESCheatDecodeSNES made of c
RECURSIVE newCheatList(_, _)
newCheatList(order, decoded) ==
    IF order = <<>> THEN <<>>
    ELSE IF decoded[Head(order)].ok
         THEN <<decoded[Head(order)].code>> \o newCheatList(Tail(order), decoded)
         ELSE newCheatList(Tail(order), decoded)

\* loadCheats: the lists it may give to emulator->cheats (the order in which a
\* set is enumerated is not specified)
loadCheatsLists(active) ==
    { newCheatList(order, DecodedCheats) : order \in Enumerations(active) }

\* loadCheatsLists of each set of codes _activeCheats can be
LoadCheatsLists == [active \in SUBSET CheatCodes |-> loadCheatsLists(active)]

-----------------------------------------------------------------------------
(* Program: the game record and the files the core asks for *)

\* What Heuristics::SuperFamicom and the game database give for each ROM the
\* model loads: the title and region of its header, and the coprocessor
\* firmware its manifest asks for (the architecture and identifier of
\* game/board/memory(type=ROM,content=Program)), "none" when it asks for none;
\* whether the database lists its SHA-256; and the file it is loaded from.
Roms ==
    [ mario  |-> [title |-> "SUPER MARIOWORLD", region |-> "NTSC",
                  architecture |-> "none", identifier |-> <<>>,
                  inDatabase |-> TRUE,
                  file |-> [dir |-> <<"/","r">>, name |-> <<"a",".","s">>]],
      pilot  |-> [title |-> "PILOTWINGS", region |-> "NTSC",
                  architecture |-> "uPD7725",
                  identifier |-> <<"D","S","P","1">>,
                  inDatabase |-> TRUE,
                  file |-> [dir |-> <<"/","r">>, name |-> <<"s",".","a",".","s">>]],
      shogi  |-> [title |-> "SHOGI2", region |-> "NTSC",
                  architecture |-> "ARM6",
                  identifier |-> <<"S","T","0","1","8">>,
                  inDatabase |-> FALSE,
                  file |-> [dir |-> <<"/","r",".","d">>, name |-> <<"s","a">>]],
      patrol |-> [title |-> "AIR STRIKE PATROL", region |-> "PAL",
                  architecture |-> "none", identifier |-> <<>>,
                  inDatabase |-> FALSE,
                  file |-> [dir |-> <<"/","r">>, name |-> <<"a","\\","s",".","s">>]],
      swiv   |-> [title |-> "FIREPOWER 2000", region |-> "NTSC",
                  architecture |-> "none", identifier |-> <<>>,
                  inDatabase |-> TRUE,
                  file |-> [dir |-> <<"/","r">>, name |-> <<"f",".","s">>]] ]

Locations == DOMAIN Roms

\* the size of the dump each architecture's open expects
FirmwareSize(architecture) ==
    CASE architecture = "uPD7725" -> 8192      \* 0x2000
      [] architecture = "ARM6" -> 163840       \* 0x28000
      [] architecture = "uPD96050" -> 53248    \* 0xd000
      [] OTHER -> 0

\* the architecture a firmware file name belongs to
NameArchitecture(name) ==
    CASE name \in {"upd7725.program.rom", "upd7725.data.rom"} -> "uPD7725"
      [] name \in {"arm6.program.rom", "arm6.data.rom"} -> "ARM6"
      [] name \in {"upd96050.program.rom", "upd96050.data.rom"} -> "uPD96050"
      [] OTHER -> "none"

OpenNames == {"ipl.rom", "boards.bml", "manifest.bml", "program.rom",
              "upd7725.program.rom", "upd7725.data.rom", "arm6.program.rom",
              "upd96050.data.rom", "save.ram", "time.rtc", "msu1/data.rom"}

OpenModes == {"read", "write"}

OpenIds == {"SuperFamicom", "GameBoy"}

NoBios == [set |-> FALSE, name |-> <<>>]

NoOpen == [name |-> "", returned |-> FALSE]

\* Program::loadSuperFamicom: title, region and manifest are those of the ROM at
\* location; verified is set when the database lists the ROM and is left alone
\* otherwise; the ROMs of the model hold no firmware of their own, so the
\* firmware buffer stays as it was
loadSuperFamicom(sf, location) ==
    [sf EXCEPT !.location = location,
               !.title = Roms[location].title,
               !.region = Roms[location].region,
               !.architecture = Roms[location].architecture,
               !.identifier = Roms[location].identifier,
               !.verified = IF Roms[location].inDatabase THEN TRUE ELSE @]

\* Program::loadSuperFamicomFirmware: [firmware, lastFailedBiosLoad] after
\* reading <BIOS directory>/<fwname>.rom, which holds size bytes (0: no file)
loadSuperFamicomFirmware(fwname, size, lastFailed) ==
    [firmware |-> size,
     lastFailed |-> IF size = 0
                    THEN [set |-> TRUE, name |-> fwname \o <<".","r","o","m">>]
                    ELSE lastFailed]

\* the firmware blocks of Program::openRomSuperFamicom: an open of a firmware
\* name reads the dump when no firmware is held and the manifest names a
\* memory of the name's architecture
firmwareStep(sf, name, lastFailed, dumpSize) ==
    IF NameArchitecture(name) # "none" /\ sf.firmware = 0
       /\ sf.architecture = NameArchitecture(name)
    THEN loadSuperFamicomFirmware(downcase(sf.identifier), dumpSize, lastFailed)
    ELSE [firmware |-> sf.firmware, lastFailed |-> lastFailed]

\* Program::openRomSuperFamicom: whether it returns a file, given the firmware
\* size after the firmware blocks and whether the save file can be opened
openRomSuperFamicom(name, mode, firmware, saveOpens) ==
    \/ name \in {"program.rom", "data.rom", "expansion.rom"} /\ mode = "read"
    \/ /\ NameArchitecture(name) # "none"
       /\ mode = "read"
       /\ firmware = FirmwareSize(NameArchitecture(name))
    \/ name = "save.ram" /\ saveOpens

\* Program::open: the bundled files are returned at once, before the
\* required-file check
openReturnsEarly(id, name, mode) == name \in {"ipl.rom", "boards.bml"} /\ mode = "read"

\* Program::open: whether it returns a file
openResult(id, name, mode, firmware, saveOpens, bundle) ==
    IF openReturnsEarly(id, name, mode) THEN name \in bundle
    ELSE IF id = "SuperFamicom"
         THEN \/ name \in {"manifest.bml", "program.rom", "data.rom", "expansion.rom"}
                 /\ mode = "read"
              \/ openRomSuperFamicom(name, mode, firmware, saveOpens)
         ELSE FALSE

\* Program::load: the per-title overrides, applied to the configuration
hackOverrides(cfg, title, region) ==
    [n \in ConfigNames |->
        IF n = "Hacks/PPU/Fast" /\ title \in {"AIR STRIKE PATROL", "DESERT FIGHTER",
                                               "SFC クレヨンシンチャン"}
        THEN "false"
        ELSE IF n = "Hacks/DSP/Fast"
                /\ (\/ title \in {"KOUSHIEN_2", "RENDERING RANGER R2"}
                    \/ title = "BUBSY II" /\ region = "PAL")
        THEN "false"
        ELSE IF n = "Hacks/PPU/RenderCycle"
                /\ (\/ title = "ADVENTURES OF FRANKEN" /\ region = "PAL"
                    \/ title \in {"FIREPOWER 2000", "NHL '94", "NHL PROHOCKEY'94"})
        THEN "32"
        ELSE IF n = "Hacks/Entropy" /\ cfg["Hacks/Hotfixes"] = "true"
                /\ title = "The Hurricanes"
        THEN "None"
        ELSE cfg[n]]

\* a Program::load that leaves the failure indicator as it finds it
loadKeepsFailed(failed) == failed

\* Program::load: failedLoadingAtLeastOneRequiredFile = false, whatever it was
loadClearsFailed(failed) == FALSE

NoError == [kind |-> "nil", code |-> "", missing |-> <<>>]

Untouched == [kind |-> "untouched", code |-> "", missing |-> <<>>]

\* the NSError built when lastFailedBiosLoad is set
missingFileError(lastFailed) ==
    [kind |-> "error", code |-> "OEGameCoreCouldNotLoadROMError",
     missing |-> lastFailed.name]

\* loadFileAtPath: the outer outErr, which the branch for a missing firmware
\* dump never assigns: that branch declares an outErr of its own. A strong
\* local is nil until it is assigned.
loadFileOutErr(lastFailed) == NoError

-----------------------------------------------------------------------------
(* Program::videoFrame *)

\* the frames the core is given to deliver: width and height in pixels, pitch
\* in bytes
FrameWidths == {256, 512, 1024}

FrameHeights == {8, 224, 239, 240, 448, 480, 960}

FramePitches == {1024, 2048}

\* emulator->color(color): a 64-bit value, kept as its three 16-bit fields,
\* <<bits 0-15, bits 16-31, bits 32-47>>
Colors == { <<0, 0, 0>>, <<65535, 0, 0>>, <<0, 65535, 0>>, <<0, 0, 65535>>,
            <<4660, 22136, 39612>> }

\* (realcolor >> 8) & 0xFF, (realcolor >> 24) & 0xFF and (realcolor >> 40) & 0xFF:
\* the high byte of each field
colorB(realcolor) == (realcolor[1] \div 256) % 256

colorG(realcolor) == (realcolor[2] \div 256) % 256

colorR(realcolor) == (realcolor[3] \div 256) % 256

\* the 32-bit value written for a pixel
pixelValue(realcolor) ==
    colorR(realcolor) + colorG(realcolor) * 256 + colorB(realcolor) * 65536

frameMultiplierOne(height, over) == IF ~over THEN 1 ELSE 0

\* uint multiplier = height / 240, used when the overscan area is hidden
frameMultiplier(height, over) == IF ~over THEN height \div 240 ELSE 0

\* the number of uint16 the source pointer is advanced by
frameDataOffset(pitch, height, over) ==
    8 * (pitch \div 2) * frameMultiplier(height, over)

\* height -= 16 * multiplier
frameHeight(height, over) == height - 16 * frameMultiplier(height, over)

\* what the last videoFrame call did: the width and the number of lines copied,
\* where it started reading, the source stride and the value written, with the
\* height it was given and the overscan flag it saw
NoFrame == [width |-> 0, height |-> 0, offset |-> 0, stride |-> 0, value |-> 0,
            given |-> 0, over |-> FALSE]

\* the two loops write position (x, y), at outBuffer + y*512 + x, for every
\* x < width and y < height: the last position written, when there is one
lastWritten(f) == <<f.width - 1, f.height - 1>>

wroteAny(f) == f.width > 0 /\ f.height > 0

-----------------------------------------------------------------------------
(* Save states *)

MaxStateLen == 2

Bytes == {0, 255}

RECURSIVE ByteSeqsOf(_)
ByteSeqsOf(n) ==
    IF n = 0 THEN {<<>>}
    ELSE ByteSeqsOf(n - 1) \cup { Append(s, b) : s \in ByteSeqsOf(n - 1), b \in Bytes }

\* what emulator->serialize() can produce
ByteSeqs == ByteSeqsOf(MaxStateLen)

\* An NSData: its length is Len(head) + more * 2^32; head holds the bytes
\* before the first whole block of 2^32 bytes that follows them, more counts
\* those blocks. (A length is a 64-bit NSUInteger; the serializer's is a
\* 32-bit uint.)
NSData(bytes) == [exists |-> TRUE, head |-> bytes, more |-> 0]

\* no NSData (nil), no file
NoData == [exists |-> FALSE, head |-> <<>>, more |-> 0]

\* the files the host names: none at "slot" yet, a file that is no save state,
\* and one of more than 2^32 bytes
FileNames == {"slot", "junk", "huge"}

FilesInit == [n \in FileNames |->
                CASE n = "slot" -> NoData
                  [] n = "junk" -> NSData(<<255>>)
                  [] n = "huge" -> [exists |-> TRUE, head |-> <<0, 255>>, more |-> 1]]

\* serializeStateWithError: [NSData dataWithBytes:s.data() length:s.size()]
serializeState(state) == NSData(state)

\* deserializeState: serializer s(state.bytes, (uint)state.length), the bytes
\* the core is given: the cast keeps the length modulo 2^32
serializerBytes(data) == NSData(data.head)

NoStateError == [kind |-> "nil", code |-> ""]

\* the error a failed Foundation read or write hands back
CocoaError == [kind |-> "error", code |-> "NSCocoaErrorDomain"]

CouldNotLoadStateError == [kind |-> "error", code |-> "OEGameCoreCouldNotLoadStateError"]

\* a deserializeState that stores the error whatever unserialize returned
deserializeStateErrorAlways(res, supplied, before) ==
    IF supplied THEN CouldNotLoadStateError ELSE before

\* deserializeState: what *outError holds afterwards
deserializeStateError(res, supplied, before) ==
    IF ~res /\ supplied THEN CouldNotLoadStateError ELSE before

\* the completion handler's arguments: block(success, success ? nil : error)
blockArgs(success, error) == <<success, IF success THEN NoStateError ELSE error>>

NoStateOp == [op |-> "none", file |-> "", ioOk |-> TRUE, reached |-> FALSE,
              accepted |-> FALSE, data |-> NoData, given |-> NoData,
              res |-> FALSE, supplied |-> FALSE, outError |-> NoStateError]

-----------------------------------------------------------------------------
(* The battery save path *)

\* the index of the last '/' of s that is not its last character, 0 if none
lastSlash(s) ==
    LET P == {i \in 1..(Len(s) - 1) : s[i] = "/"}
    IN  IF P = {} THEN 0 ELSE CHOOSE i \in P : \A j \in P : j <= i

\* nall string::trimRight(rhs, 1L): rhs taken off the end, once, when it is there
trimRight(s, rhs) ==
    IF rhs # <<>> /\ Len(s) >= Len(rhs)
       /\ SubSeq(s, Len(s) - Len(rhs) + 1, Len(s)) = rhs
    THEN SubSeq(s, 1, Len(s) - Len(rhs))
    ELSE s

\* nall Location::base: what follows the last '/' (one at the very end apart)
LocationBase(s) == SubSeq(s, lastSlash(s) + 1, Len(s))

\* nall Location::suffix: from the last '.' of the base on, without a '/' at
\* the end; empty when the base has no '.'
LocationSuffix(s) ==
    LET b == LocationBase(s)
        P == {i \in 1..Len(b) : b[i] = "."}
    IN  IF P = {} THEN <<>>
        ELSE trimRight(SubSeq(b, CHOOSE i \in P : \A j \in P : j <= i, Len(b)), <<"/">>)

NoPath == <<"(", "n", "i", "l", ")">>

\* the save.ram block of Program::openRomSuperFamicom: the path it opens, given
\* base_name and batterySavesDirectoryPath.fileSystemRepresentation (NoPath
\* when that is NULL). transform works on base_name itself, so the branch
\* without a directory trims the transformed name.
savePathOf(baseName, saveDir) ==
    LET suffix == LocationSuffix(baseName)
        transformed == transform(baseName, <<"\\">>, <<"/">>)
        base == LocationBase(transformed)
    IN  IF saveDir # NoPath
        THEN transform(saveDir, <<"\\">>, <<"/">>) \o <<"/">> \o trimRight(base, suffix)
                \o <<".","s","r","m">>
        ELSE trimRight(transformed, suffix) \o <<".","s","r","m">>

\* the same block: base_name as it leaves it, transformed in place, and trimmed
\* in place too in the branch without a directory
baseNameAfterSave(baseName, saveDir) ==
    LET transformed == transform(baseName, <<"\\">>, <<"/">>)
    IN  IF saveDir # NoPath THEN transformed
        ELSE trimRight(transformed, LocationSuffix(baseName))

MaxNameLen == 3

NameAlphabet == {"a", "s", ".", "\\"}

RECURSIVE NamesOf(_)
NamesOf(n) ==
    IF n = 0 THEN {<<>>}
    ELSE NamesOf(n - 1) \cup { Append(s, c) : s \in NamesOf(n - 1), c \in NameAlphabet }

\* ROM file names
RomNames == NamesOf(MaxNameLen) \ {<<>>}

\* the directories ROMs live in
RomDirs == { <<"/","r">>, <<"/","r",".","d">> }

\* Each ROM path with its parts: the directory and the file name
RomFiles == { [dir |-> d, name |-> n] : d \in RomDirs, n \in RomNames }

romPath(f) == f.dir \o <<"/">> \o f.name

NoFile == [dir |-> <<>>, name |-> <<>>]

BatteryDirs == { <<"/","b">>, NoPath }

-----------------------------------------------------------------------------
(* Input *)

\* the buttons of the host's OESNESButton enumeration
Buttons == {"Up", "Down", "Left", "Right", "A", "B", "X", "Y",
            "TriggerLeft", "TriggerRight", "Start", "Select"}

\* the players didPushSNESButton and didReleaseSNESButton accept
Players == {1, 2}

\* the controller ports the core polls
Ports == {0, 1}

\* the devices the core polls for; Gamepad is SuperFamicom::ID::Device::Gamepad
Devices == {"Gamepad", "Mouse"}

\* Program::inputPoll: the host button of each core input id, the ids
\* counted from 1 here
buttonMap == <<"Up", "Down", "Left", "Right", "B", "A", "Y", "X",
               "TriggerLeft", "TriggerRight", "Select", "Start">>

InputIds == 0 .. (Len(buttonMap) - 1)

\* Program::inputPoll with every input held at the first entry of the table
inputPollFirstEntry(p, port, device, input) ==
    IF device # "Gamepad" THEN 0
    ELSE IF p[port][buttonMap[1]] THEN 1 ELSE 0

\* Program::inputPoll
inputPoll(p, port, device, input) ==
    IF device # "Gamepad" THEN 0
    ELSE IF p[port][buttonMap[input + 1]] THEN 1 ELSE 0

\* pad after memset(pad, 0, sizeof(pad)), and as init finds it
NoPad == [port \in Ports |-> [b \in Buttons |-> FALSE]]

NoEvents == [port \in Ports |-> [b \in Buttons |-> "none"]]

NoPoll == <<>>

MaxEvents == 2

-----------------------------------------------------------------------------
(* Display modes, in the revision whose setDisplayModeInfo validates them.
   A dictionary is a function from the keys it holds; a value is its class and
   what it holds. *)

Mode7Key == "bsnes/Hacks/PPU/Mode7/Scale"

ExtraKey == "bsnes/Other"

NumberYES == [class |-> "NSNumber", value |-> "YES"]

NumberNO == [class |-> "NSNumber", value |-> "NO"]

\* setDisplayModeInfo: the table of keys, classes and default values
defaultValues ==
    << [key |-> BlurKey, valueClass |-> "NSNumber", defaultValue |-> NumberNO],
       [key |-> ColorKey, valueClass |-> "NSNumber", defaultValue |-> NumberYES],
       [key |-> SpriteKey, valueClass |-> "NSNumber", defaultValue |-> NumberNO],
       [key |-> Mode7Key, valueClass |-> "NSString",
        defaultValue |-> [class |-> "NSString", value |-> "1"]] >>

\* displayModeInfo[key]: nil when the dictionary has no such key
NilValue == [class |-> "nil", value |-> ""]

objectForKey(info, key) == IF key \in DOMAIN info THEN info[key] ELSE NilValue

\* isKindOfClass:, a message to nil answering NO
isKindOfClass(v, cls) == v.class = cls

\* a setDisplayModeInfo that takes every value the dictionary has, whatever
\* its class
setDisplayModeInfoUnchecked(info) ==
    [k \in {defaultValues[i].key : i \in 1..Len(defaultValues)} |->
        LET d == defaultValues[CHOOSE i \in 1..Len(defaultValues) : defaultValues[i].key = k]
            thisPref == objectForKey(info, k)
        IN  IF thisPref # NilValue THEN thisPref ELSE d.defaultValue]

\* setDisplayModeInfo: the new _displayModes
setDisplayModeInfoChecked(info) ==
    [k \in {defaultValues[i].key : i \in 1..Len(defaultValues)} |->
        LET d == defaultValues[CHOOSE i \in 1..Len(defaultValues) : defaultValues[i].key = k]
            thisPref == objectForKey(info, k)
        IN  IF isKindOfClass(thisPref, d.valueClass) THEN thisPref ELSE d.defaultValue]

\* init: _displayModes is an empty dictionary
NoModes == [k \in {} |-> NilValue]

NoInfo == [called |-> FALSE, info |-> NoModes]

\* the eight values of the HD Mode 7 options of displayModes
Mode7Scales == <<"1", "2", "3", "4", "5", "6", "7", "8">>

Mode7Names == <<"240p (disabled)", "480p", "720p", "960p", "1200p", "1440p", "1680p",
                "1920p">>

StringValue(v) == [class |-> "NSString", value |-> v]

\* @(b)
NumberWithBool(b) == IF b THEN NumberYES ELSE NumberNO

\* displayModes: the options of the list, in its order, each with its name, its
\* key, its state and, for the options made with OptionWithValue, its value
displayModesList(modes) ==
    << [name |-> "Blur Emulation", key |-> BlurKey,
        state |-> objectForKey(modes, BlurKey), value |-> NilValue],
       [name |-> "Color Emulation", key |-> ColorKey,
        state |-> objectForKey(modes, ColorKey), value |-> NilValue] >>
    \o [i \in 1..Len(Mode7Scales) |->
          [name |-> Mode7Names[i], key |-> Mode7Key,
           state |-> NumberWithBool(objectForKey(modes, Mode7Key)
                                       = StringValue(Mode7Scales[i])),
           value |-> StringValue(Mode7Scales[i])]]
    \o << [name |-> "Disable Sprite Limit (requires reset)", key |-> SpriteKey,
           state |-> objectForKey(modes, SpriteKey), value |-> NilValue] >>

\* the names changeDisplayWithMode is called with
DisplayModeNames ==
    {displayModesList(NoModes)[i].name : i \in 1..Len(displayModesList(NoModes))}

\* changeDisplayWithMode: the new _displayModes. The key and the current value
\* come from the option of that name: its value when it has one, else its
\* state
changeDisplayWithModeModes(modes, displayMode) ==
    LET list == displayModesList(modes)
        option == list[CHOOSE i \in 1..Len(list) : list[i].name = displayMode]
        currentVal == IF option.value # NilValue THEN option.value ELSE option.state
    IN  [modes EXCEPT ![option.key] =
            IF isKindOfClass(currentVal, "NSNumber")
            THEN NumberWithBool(~(currentVal.value = "YES"))
            ELSE currentVal]

\* the setting a key names: the key without "bsnes/"
modeKeyNoPrefix(k) ==
    IF k = Mode7Key THEN "Hacks/PPU/Mode7/Scale" ELSE keyNoPrefix(k)

\* loadConfiguration: what the emulator is configured with afterwards
loadConfiguration(cfg, modes) ==
    [n \in DOMAIN cfg |->
        IF \E k \in DOMAIN modes : /\ modeKeyNoPrefix(k) = n
                                   /\ modes[k].class \in {"NSNumber", "NSString"}
        THEN modes[CHOOSE k \in DOMAIN modes : modeKeyNoPrefix(k) = n]
        ELSE cfg[n]]

\* nothing configured yet
NoModeConfig ==
    [n \in {modeKeyNoPrefix(defaultValues[i].key) : i \in 1..Len(defaultValues)}
        |-> NilValue]

\* dictionaries that say nothing of the scale, or give it as one of the eight
\* values, as another string or as a number
Mode7Infos ==
    {NoModes} \cup {[k \in {Mode7Key} |-> v] :
                       v \in {StringValue("3"), StringValue("9"), NumberYES}}

\* the values and the dictionaries the host passes
InfoValues == {NumberYES, NumberNO, [class |-> "NSString", value |-> "3"]}

InfoKeys == {BlurKey, ColorKey, SpriteKey, Mode7Key, ExtraKey}

DisplayModeInfos ==
    { info \in UNION { [S -> InfoValues] : S \in SUBSET InfoKeys } :
         ExtraKey \in DOMAIN info => info[ExtraKey] = NumberYES }

-----------------------------------------------------------------------------
(* Lifetime: the BSNESGameCore objects of one process and the two file-static
   pointers they share *)

MaxCores == 3

CoreIds == 1 .. MaxCores

\* no delete yet of the two objects a core's init allocates
Fresh == [emulator |-> 0, program |-> 0]

\* init: both pointers are overwritten with newly allocated objects
initPointers(c) == [emulator |-> c, program |-> c]

\* dealloc: delete emulator; delete program; (the pointers keep their values,
\* ~Program is empty)
deallocHeap(h, e, p) ==
    [c \in CoreIds |->
        [emulator |-> h[c].emulator + (IF c = e THEN 1 ELSE 0),
         program |-> h[c].program + (IF c = p THEN 1 ELSE 0)]]

\* one core constructed, the first
OneCore ==
    /\ cores = [c \in CoreIds |-> IF c = 1 THEN "alive" ELSE "unborn"]
    /\ emulator = initPointers(1).emulator
    /\ program = initPointers(1).program
    /\ heap = [c \in CoreIds |-> Fresh]
    /\ staleUse = FALSE

-----------------------------------------------------------------------------
(* The state after -[BSNESGameCore init] *)

MaxOpens == 2

NoGame == [location |-> "none", title |-> "", region |-> "",
           architecture |-> "none", identifier |-> <<>>, verified |-> FALSE,
           firmware |-> 0]

DecodeIdle ==
    /\ code = <<>>
    /\ codeIn = <<>>
    /\ decodeResult = "pending"
    /\ decodeCalls = 0
    /\ firstCode = <<>>

\* init: the two containers are empty and nothing is configured yet; Program
\* leaves failedLoadingAtLeastOneRequiredFile without an initial value
HostInit ==
    /\ pc = "idle"
    /\ lastOp = "init"
    /\ displayModes = [k \in DisplayKeys |-> "nil"]
    /\ config = [n \in ConfigNames |-> "default"]
    /\ overscan = FALSE
    /\ activeCheats = {}
    /\ lastSetCheat = NoSetCheat
    /\ cheatList = <<>>
    /\ cheatsCalls = 0
    /\ connectCalls = 0
    /\ superFamicom = NoGame
    /\ failedLoadingAtLeastOneRequiredFile \in BOOLEAN
    /\ lastFailedBiosLoad = NoBios
    /\ errSupplied = FALSE
    /\ errOut = Untouched
    /\ loadResult = "none"
    /\ biosHasFile = FALSE
    /\ opens = 0
    /\ reqMissed = FALSE
    /\ fwReqMissed = FALSE
    /\ lastOpen = NoOpen
    /\ prevFailed = FALSE
    /\ screenRect = <<0, 0, 0, 0>>
    /\ frame = NoFrame
    /\ coreState = <<>>
    /\ files = FilesInit
    /\ blockCalls = <<>>
    /\ stateOp = NoStateOp
    /\ base_name = <<>>
    /\ save = <<"/","b">>
    /\ romFile = NoFile
    /\ savePath = NoPath
    /\ pad = NoPad
    /\ lastEvent = NoEvents
    /\ events = 0
    /\ polled = NoPoll
    /\ OneCore
    /\ validatedModes = NoModes
    /\ modeInfoIn = NoInfo
    /\ modeConfig = NoModeConfig

Init == DecodeIdle /\ HostInit

-----------------------------------------------------------------------------
(* The host's calls *)

\* setDisplayModeInfo:
SetDisplayModeInfo(info) ==
    /\ pc = "idle"
    /\ displayModes' = setDisplayModeInfoResult(info)
    /\ lastOp' = "setDisplayModeInfo"
    /\ cheatsCalls' = 0
    /\ connectCalls' = 0
    /\ UNCHANGED <<pc, config, overscan, activeCheats, cheatList, lastSetCheat>>
    /\ UNCHANGED <<decodeVars, programVars, loadVars, videoVars, stateVars, pathVars,
                   inputVars, lifeVars, modeVars>>

\* changeDisplayWithMode:, configEmulator included
ChangeDisplayWithMode(mode) ==
    /\ pc = "idle"
    /\ displayModes' = [displayModes EXCEPT ![ModeKey(mode)] =
                            IF boolValue(@) THEN "NO" ELSE "YES"]
    /\ config' = configEmulatorConfig(config, displayModes')
    /\ overscan' = configEmulatorOverscan(displayModes')
    /\ lastOp' = "changeDisplayWithMode"
    /\ cheatsCalls' = 0
    /\ connectCalls' = 0
    /\ UNCHANGED <<pc, activeCheats, cheatList, lastSetCheat>>
    /\ UNCHANGED <<decodeVars, programVars, loadVars, videoVars, stateVars, pathVars,
                   inputVars, lifeVars, modeVars>>

\* setCheat:setType:setEnabled:, loadCheats included
SetCheat(c, type, enabled) ==
    /\ pc = "idle"
    /\ activeCheats' = setCheatActive(activeCheats, c, type, enabled)
    /\ lastSetCheat' = [lastSetCheat EXCEPT ![c] = [called |-> TRUE, type |-> type,
                                                  enabled |-> enabled]]
    /\ cheatList' \in LoadCheatsLists[activeCheats']
    /\ cheatsCalls' = 1
    /\ connectCalls' = 0
    /\ lastOp' = "setCheat"
    /\ UNCHANGED <<pc, displayModes, config, overscan>>
    /\ UNCHANGED <<decodeVars, programVars, loadVars, videoVars, stateVars, pathVars,
                   inputVars, lifeVars, modeVars>>

\* loadFileAtPath:error:, from its entry to the point where emulator->load()
\* has called Program::load(id, ...) for the cartridge: configEmulator, the
\* location, the reset of the two failure indicators and loadSuperFamicom.
\* hasFile says whether the BIOS directory holds the dump the game's manifest
\* names.
LoadFileAtPathBegin(location, hasFile) ==
    /\ pc = "idle"
    /\ pc' = "loading"
    /\ lastOp' = "loadFileAtPath"
    /\ config' = configEmulatorConfig(config, displayModes)
    /\ overscan' = configEmulatorOverscan(displayModes)
    /\ superFamicom' = loadSuperFamicom(superFamicom, location)
    /\ failedLoadingAtLeastOneRequiredFile' = loadClearsFailed(failedLoadingAtLeastOneRequiredFile)
    /\ lastFailedBiosLoad' = NoBios
    /\ biosHasFile' = (hasFile /\ Roms[location].architecture # "none")
    /\ errSupplied' = FALSE
    /\ errOut' = Untouched
    /\ loadResult' = "none"
    /\ opens' = 0
    /\ reqMissed' = FALSE
    /\ fwReqMissed' = FALSE
    /\ lastOpen' = NoOpen
    /\ prevFailed' = (loadResult = "NO")
    /\ cheatsCalls' = 0
    /\ connectCalls' = 0
    /\ base_name' = romPath(Roms[location].file)
    /\ romFile' = Roms[location].file
    /\ UNCHANGED <<displayModes, activeCheats, cheatList, lastSetCheat, decodeVars>>
    /\ pad' = NoPad
    /\ lastEvent' = NoEvents
    /\ polled' = NoPoll
    /\ UNCHANGED <<videoVars, stateVars, save, savePath, events, lifeVars, modeVars>>

\* Program::open, called by the core while it loads. saveOpens and inBundle
\* say whether the save file and the bundled resource can be opened.
CoreOpen(id, name, mode, required, saveOpens, inBundle) ==
    /\ pc = "loading"
    /\ opens < MaxOpens
    /\ opens' = opens + 1
    /\ LET reachesRom == ~openReturnsEarly(id, name, mode) /\ id = "SuperFamicom"
           dumpSize == IF biosHasFile THEN FirmwareSize(superFamicom.architecture) ELSE 0
           step == IF reachesRom
                   THEN firmwareStep(superFamicom, name, lastFailedBiosLoad, dumpSize)
                   ELSE [firmware |-> superFamicom.firmware,
                         lastFailed |-> lastFailedBiosLoad]
           result == openResult(id, name, mode, step.firmware, saveOpens,
                                IF inBundle THEN {name} ELSE {})
       IN  /\ superFamicom' = [superFamicom EXCEPT !.firmware = step.firmware]
           /\ lastFailedBiosLoad' = step.lastFailed
           /\ failedLoadingAtLeastOneRequiredFile' =
                 IF ~openReturnsEarly(id, name, mode) /\ required /\ ~result
                 THEN TRUE
                 ELSE failedLoadingAtLeastOneRequiredFile
           /\ reqMissed' = (reqMissed \/ (required /\ ~result))
           /\ fwReqMissed' =
                 (fwReqMissed \/ (/\ required
                                  /\ ~result
                                  /\ id = "SuperFamicom"
                                  /\ mode = "read"
                                  /\ superFamicom.architecture # "none"
                                  /\ NameArchitecture(name) = superFamicom.architecture))
           /\ lastOpen' = IF id = "SuperFamicom" /\ name = "time.rtc"
                          THEN [name |-> name, returned |-> result]
                          ELSE lastOpen
           /\ UNCHANGED prevFailed
    /\ savePath' = IF id = "SuperFamicom" /\ name = "save.ram"
                   THEN savePathOf(base_name, save)
                   ELSE savePath
    /\ UNCHANGED <<hostVars, errSupplied, errOut, loadResult, biosHasFile>>
    /\ base_name' = IF id = "SuperFamicom" /\ name = "save.ram"
                    THEN baseNameAfterSave(base_name, save)
                    ELSE base_name
    /\ UNCHANGED <<decodeVars, videoVars, stateVars, save, romFile, inputVars, lifeVars, modeVars>>

\* the rest of loadFileAtPath:error:, from the return of emulator->load(): the
\* per-title overrides and power-on of Program::load, then the check of the
\* failure indicator. error says whether the caller passed an error pointer.
LoadFileAtPathEnd(error) ==
    /\ pc = "loading"
    /\ pc' = "idle"
    /\ config' = hackOverrides(config, superFamicom.title, superFamicom.region)
    /\ errSupplied' = error
    /\ IF failedLoadingAtLeastOneRequiredFile
       THEN /\ errOut' = IF error THEN loadFileOutErr(lastFailedBiosLoad) ELSE errOut
            /\ loadResult' = "NO"
            /\ UNCHANGED <<cheatList, cheatsCalls, connectCalls>>
       ELSE /\ connectCalls' = 2
            /\ cheatList' \in LoadCheatsLists[activeCheats]
            /\ cheatsCalls' = 1
            /\ loadResult' = "YES"
            /\ UNCHANGED errOut
    /\ UNCHANGED <<lastOp, displayModes, overscan, activeCheats, lastSetCheat>>
    /\ UNCHANGED <<programVars, biosHasFile, opens, reqMissed, fwReqMissed, lastOpen,
                   prevFailed>>
    /\ UNCHANGED <<decodeVars, videoVars, stateVars, pathVars, inputVars, lifeVars, modeVars>>

\* setDisplayModeInfo: of the revision that validates
SetDisplayModeInfoChecked(info) ==
    /\ pc = "idle"
    /\ validatedModes' = setDisplayModeInfoChecked(info)
    /\ modeInfoIn' = [called |-> TRUE, info |-> info]
    /\ UNCHANGED modeConfig
    /\ UNCHANGED <<decodeVars, hostVars, programVars, loadVars, videoVars, stateVars, pathVars,
                   inputVars, lifeVars>>

\* changeDisplayWithMode: of the revision that has the HD Mode 7 options, once
\* the host has supplied the display mode info; loadConfiguration included
ChangeDisplayWithModeValue(displayMode) ==
    /\ pc = "idle"
    /\ modeInfoIn.called
    /\ validatedModes' = changeDisplayWithModeModes(validatedModes, displayMode)
    /\ modeConfig' = loadConfiguration(modeConfig, validatedModes')
    /\ UNCHANGED modeInfoIn
    /\ UNCHANGED <<decodeVars, hostVars, programVars, loadVars, videoVars, stateVars, pathVars,
                   inputVars, lifeVars>>

\* init of another BSNESGameCore in the same process
CoreInit(c) ==
    /\ cores[c] = "unborn"
    /\ cores' = [cores EXCEPT ![c] = "alive"]
    /\ emulator' = initPointers(c).emulator
    /\ program' = initPointers(c).program
    /\ UNCHANGED <<heap, staleUse>>
    /\ UNCHANGED <<decodeVars, hostVars, programVars, loadVars, videoVars, stateVars, pathVars,
                   inputVars, modeVars>>

\* dealloc of a core
CoreDealloc(c) ==
    /\ cores[c] = "alive"
    /\ cores' = [cores EXCEPT ![c] = "dead"]
    /\ heap' = deallocHeap(heap, emulator, program)
    /\ UNCHANGED <<emulator, program, staleUse>>
    /\ UNCHANGED <<decodeVars, hostVars, programVars, loadVars, videoVars, stateVars, pathVars,
                   inputVars, modeVars>>

\* a method of a live core that goes through the two pointers, such as
\* executeFrame (emulator->run()) or loadFileAtPath (program->load())
CoreUse(c) ==
    /\ cores[c] = "alive"
    /\ staleUse' = (staleUse \/ heap[emulator].emulator > 0 \/ heap[program].program > 0)
    /\ UNCHANGED <<cores, emulator, program, heap>>
    /\ UNCHANGED <<decodeVars, hostVars, programVars, loadVars, videoVars, stateVars, pathVars,
                   inputVars, modeVars>>

\* didPushSNESButton:forPlayer:
DidPushSNESButton(button, player) ==
    /\ pc = "idle"
    /\ events < MaxEvents
    /\ events' = events + 1
    /\ pad' = [pad EXCEPT ![player - 1][button] = TRUE]
    /\ lastEvent' = [lastEvent EXCEPT ![player - 1][button] = "push"]
    /\ polled' = NoPoll
    /\ UNCHANGED <<decodeVars, hostVars, programVars, loadVars, videoVars, stateVars, pathVars,
                   lifeVars, modeVars>>

\* didReleaseSNESButton:forPlayer:
DidReleaseSNESButton(button, player) ==
    /\ pc = "idle"
    /\ events < MaxEvents
    /\ events' = events + 1
    /\ pad' = [pad EXCEPT ![player - 1][button] = FALSE]
    /\ lastEvent' = [lastEvent EXCEPT ![player - 1][button] = "release"]
    /\ polled' = NoPoll
    /\ UNCHANGED <<decodeVars, hostVars, programVars, loadVars, videoVars, stateVars, pathVars,
                   lifeVars, modeVars>>

\* Program::inputPoll, called by the core for every input of every port while
\* it runs a frame
InputPoll ==
    /\ pc = "idle"
    /\ polled' = [port \in Ports |-> [device \in Devices |-> [input \in InputIds |->
                      inputPoll(pad, port, device, input)]]]
    /\ UNCHANGED <<pad, lastEvent, events>>
    /\ UNCHANGED <<decodeVars, hostVars, programVars, loadVars, videoVars, stateVars, pathVars,
                   lifeVars, modeVars>>

\* Program::videoFrame, called by the core with a frame; realcolor is what
\* emulator->color() answers for the pixels of the frame
VideoFrame(pitch, width, height, realcolor) ==
    /\ pc = "idle"
    /\ screenRect' = <<0, 0, width, frameHeight(height, overscan)>>
    /\ frame' = [width |-> width,
                 height |-> frameHeight(height, overscan),
                 offset |-> frameDataOffset(pitch, height, overscan),
                 stride |-> pitch \div 2,
                 value |-> pixelValue(realcolor),
                 given |-> height,
                 over |-> overscan]
    /\ UNCHANGED <<decodeVars, hostVars, programVars, loadVars, stateVars, pathVars,
                   inputVars, lifeVars, modeVars>>

\* executeFrame: the core runs and its state changes
ExecuteFrame(state) ==
    /\ pc = "idle"
    /\ coreState' = state
    /\ UNCHANGED <<files, blockCalls, stateOp>>
    /\ UNCHANGED <<decodeVars, hostVars, programVars, loadVars, videoVars, pathVars,
                   inputVars, lifeVars, modeVars>>

\* serializeStateWithError:
SerializeStateWithError ==
    /\ pc = "idle"
    /\ stateOp' = [NoStateOp EXCEPT !.op = "serialize",
                                    !.data = serializeState(coreState)]
    /\ blockCalls' = <<>>
    /\ UNCHANGED <<coreState, files>>
    /\ UNCHANGED <<decodeVars, hostVars, programVars, loadVars, videoVars, pathVars,
                   inputVars, lifeVars, modeVars>>

\* deserializeState:withError:, on the content of one of the files; supplied
\* says whether outError is given, accept what emulator->unserialize answers
DeserializeState(name, supplied, accept) ==
    /\ pc = "idle"
    /\ files[name].exists
    /\ LET given == serializerBytes(files[name])
       IN  /\ coreState' = IF accept THEN given.head ELSE coreState
           /\ stateOp' = [NoStateOp EXCEPT
                             !.op = "deserialize", !.file = name,
                             !.reached = TRUE, !.accepted = accept,
                             !.data = files[name], !.given = given,
                             !.res = accept, !.supplied = supplied,
                             !.outError = deserializeStateError(accept, supplied,
                                                                NoStateError)]
    /\ blockCalls' = <<>>
    /\ UNCHANGED files
    /\ UNCHANGED <<decodeVars, hostVars, programVars, loadVars, videoVars, pathVars,
                   inputVars, lifeVars, modeVars>>

\* saveStateToFileAtPath:completionHandler:; writeOk says whether writeToFile
\* succeeds
SaveStateToFileAtPath(name, writeOk) ==
    /\ pc = "idle"
    /\ LET stateData == serializeState(coreState)
           error == IF writeOk THEN NoStateError ELSE CocoaError
       IN  /\ files' = IF writeOk THEN [files EXCEPT ![name] = stateData] ELSE files
           /\ blockCalls' = <<blockArgs(writeOk, error)>>
           /\ stateOp' = [NoStateOp EXCEPT !.op = "save", !.file = name,
                                           !.ioOk = writeOk, !.data = stateData]
    /\ UNCHANGED coreState
    /\ UNCHANGED <<decodeVars, hostVars, programVars, loadVars, videoVars, pathVars,
                   inputVars, lifeVars, modeVars>>

\* loadStateFromFileAtPath:completionHandler:; readOk says whether the file,
\* when it exists, can be read
LoadStateFromFileAtPath(name, readOk, accept) ==
    /\ pc = "idle"
    /\ LET data == IF readOk THEN files[name] ELSE NoData
           given == serializerBytes(data)
           error == deserializeStateError(accept, TRUE, NoStateError)
       IN  IF ~data.exists
           THEN /\ blockCalls' = <<<<FALSE, CocoaError>>>>
                /\ stateOp' = [NoStateOp EXCEPT !.op = "load", !.file = name,
                                                !.ioOk = FALSE]
                /\ UNCHANGED coreState
           ELSE /\ coreState' = IF accept THEN given.head ELSE coreState
                /\ blockCalls' = <<blockArgs(accept, error)>>
                /\ stateOp' = [NoStateOp EXCEPT
                                  !.op = "load", !.file = name,
                                  !.reached = TRUE, !.accepted = accept,
                                  !.data = data, !.given = given,
                                  !.res = accept, !.supplied = TRUE,
                                  !.outError = error]
    /\ UNCHANGED files
    /\ UNCHANGED <<decodeVars, hostVars, programVars, loadVars, videoVars, pathVars,
                   inputVars, lifeVars, modeVars>>

-----------------------------------------------------------------------------
(* Specifications *)

DisplayInfos == [DisplayKeys -> {"nil", "YES", "NO"}]

Open ==
    \E id \in OpenIds, name \in OpenNames, mode \in OpenModes,
       required \in BOOLEAN, saveOpens \in BOOLEAN, inBundle \in BOOLEAN :
        CoreOpen(id, name, mode, required, saveOpens, inBundle)

LoadBegin == \E l \in Locations, hasFile \in BOOLEAN : LoadFileAtPathBegin(l, hasFile)

LoadEnd == \E error \in BOOLEAN : LoadFileAtPathEnd(error)

\* loading games, the core opening files as it loads
Next == LoadBegin \/ Open \/ LoadEnd

Spec == Init /\ [][Next]_vars

SetDisplay == \E info \in DisplayInfos : SetDisplayModeInfo(info)

ChangeDisplay == \E mode \in ModeNames : ChangeDisplayWithMode(mode)

LoadBeginPlain == \E l \in {"mario", "patrol"} : LoadFileAtPathBegin(l, FALSE)

\* the display options, with loads of games that need no firmware
NextDisplay == SetDisplay \/ ChangeDisplay \/ LoadBeginPlain \/ LoadEnd

SpecDisplay == Init /\ [][NextDisplay]_vars

Cheat == \E c \in RawCheats \ {SharedCheat}, type \in CheatTypes, enabled \in BOOLEAN :
            SetCheat(c, type, enabled)

\* cheats, with loads of games that need no firmware
NextCheats == Cheat \/ LoadBeginPlain \/ LoadEnd

SpecCheats == Init /\ [][NextCheats]_vars

Frame == \E pitch \in FramePitches, width \in FrameWidths, height \in FrameHeights,
            realcolor \in Colors : VideoFrame(pitch, width, height, realcolor)

ToggleOverscan == ChangeDisplayWithMode("Hide Overscan")

\* frames, with the overscan option switched from the display menu
NextVideo == Frame \/ ToggleOverscan

SpecVideo == Init /\ [][NextVideo]_vars

Run == \E state \in ByteSeqs : ExecuteFrame(state)

Deserialize == \E name \in FileNames, supplied \in BOOLEAN, accept \in BOOLEAN :
                  DeserializeState(name, supplied, accept)

SaveState == \E writeOk \in BOOLEAN : SaveStateToFileAtPath("slot", writeOk)

LoadState == \E name \in FileNames, readOk \in BOOLEAN, accept \in BOOLEAN :
                LoadStateFromFileAtPath(name, readOk, accept)

\* save states
NextState == Run \/ SerializeStateWithError \/ Deserialize \/ SaveState \/ LoadState

SpecState == Init /\ [][NextState]_vars

\* the core during loadFileAtPath of the ROM file f, on a core that has loaded
\* nothing before, with battery saves directory dir
LoadingFile(f, dir) ==
    /\ DecodeIdle
    /\ pc = "loading"
    /\ lastOp = "loadFileAtPath"
    /\ displayModes = [k \in DisplayKeys |-> "nil"]
    /\ config = configEmulatorConfig([n \in ConfigNames |-> "default"], displayModes)
    /\ overscan = configEmulatorOverscan(displayModes)
    /\ activeCheats = {}
    /\ lastSetCheat = NoSetCheat
    /\ cheatList = <<>>
    /\ cheatsCalls = 0
    /\ connectCalls = 0
    /\ superFamicom = [loadSuperFamicom(NoGame, "mario") EXCEPT !.location = "file"]
    /\ failedLoadingAtLeastOneRequiredFile = FALSE
    /\ lastFailedBiosLoad = NoBios
    /\ errSupplied = FALSE
    /\ errOut = Untouched
    /\ loadResult = "none"
    /\ biosHasFile = FALSE
    /\ opens = 0
    /\ reqMissed = FALSE
    /\ fwReqMissed = FALSE
    /\ lastOpen = NoOpen
    /\ prevFailed = FALSE
    /\ screenRect = <<0, 0, 0, 0>>
    /\ frame = NoFrame
    /\ coreState = <<>>
    /\ files = FilesInit
    /\ blockCalls = <<>>
    /\ stateOp = NoStateOp
    /\ base_name = romPath(f)
    /\ save = dir
    /\ romFile = f
    /\ savePath = NoPath
    /\ pad = NoPad
    /\ lastEvent = NoEvents
    /\ events = 0
    /\ polled = NoPoll
    /\ OneCore
    /\ validatedModes = NoModes
    /\ modeInfoIn = NoInfo
    /\ modeConfig = NoModeConfig

InitPath == \E f \in RomFiles, dir \in BatteryDirs : LoadingFile(f, dir)

OpenSave == \E mode \in OpenModes, required \in BOOLEAN, saveOpens \in BOOLEAN :
               CoreOpen("SuperFamicom", "save.ram", mode, required, saveOpens, FALSE)

\* the core opening save.ram while a ROM loads, for each ROM path
NextPath == OpenSave \/ LoadEnd

SpecPath == InitPath /\ [][NextPath]_vars

-----------------------------------------------------------------------------
(* The decoder called on its own, on every string of a bounded family: a    *)
(* well-formed code of each length the decoder looks at, or a string of a   *)
(* neighbouring length, with up to MaxEdits characters replaced.            *)

MaxEdits == 1

CheatAlphabet == {"0", "9", "a", "f", "g", "-", "=", "?", ":"}

CheatTemplates ==
    { <<"d","f","4","7","-","0","9","1","5">>,                  \* Game Genie
      <<"6","b","c","8","-","a","2","3","e">>,                  \* Game Genie
      <<"7","e","0","0","1","f","9","a">>,                      \* Pro Action Replay
      <<"7","e","0","0","1","f","=","9","a">>,                  \* address=data
      <<"7","e","0","0","1","f","=","0","0","?","9","a">>,      \* address=compare?data
      <<"7","e","0","0","1","f","9">>,                          \* 7 characters
      <<"7","e","0","0","1","f","=","9","a","0">>,              \* 10 characters
      <<"7","e","0","0","1","f","=","0","0","?","9">>,          \* 11 characters
      <<"7","e","0","0","1","f","=","0","0","?","9","a","0">>,  \* 13 characters
      <<>> }

\* the strings one replaced character away from a string of S, and S itself
OneEdit(S) ==
    S \cup { [s EXCEPT ![p] = ch] : <<s, p, ch>> \in
                { t \in S \X (1..13) \X CheatAlphabet : t[2] <= Len(t[1]) } }

RECURSIVE Edited(_, _)
Edited(S, n) == IF n = 0 THEN S ELSE Edited(OneEdit(S), n - 1)

CheatInputs == Edited(CheatTemplates, MaxEdits)

InitDecode ==
    /\ code \in CheatInputs
    /\ codeIn = code
    /\ decodeResult = "pending"
    /\ decodeCalls = 0
    /\ firstCode = <<>>
    /\ HostInit

\* OEBSNESCheatDecodeSNES(code), the string passed by reference
CallDecode ==
    /\ decodeCalls = 0
    /\ LET res == OEBSNESCheatDecodeSNES(code)
       IN  /\ code' = res.code
           /\ firstCode' = res.code
           /\ decodeResult' = IF res.ok THEN "true" ELSE "false"
    /\ decodeCalls' = 1
    /\ UNCHANGED <<codeIn, hostVars, programVars, loadVars, videoVars, stateVars, pathVars,
                   inputVars, lifeVars, modeVars>>

\* OEBSNESCheatDecodeSNES called once more on a string it has decoded
CallDecodeAgain ==
    /\ decodeCalls = 1
    /\ decodeResult = "true"
    /\ LET res == OEBSNESCheatDecodeSNES(code)
       IN  /\ code' = res.code
           /\ decodeResult' = IF res.ok THEN "true" ELSE "false"
    /\ decodeCalls' = 2
    /\ UNCHANGED <<codeIn, firstCode, hostVars, programVars, loadVars, videoVars, stateVars,
                   pathVars, inputVars, lifeVars, modeVars>>

NextDecode == CallDecode \/ CallDecodeAgain

SpecDecode == InitDecode /\ [][NextDecode]_vars

-----------------------------------------------------------------------------
(* The textual formats, stated by shape *)

HexAt(s, P) == \A i \in P : s[i] \in HexChars

IsGameGenie(s) == Len(s) = 9 /\ s[5] = "-" /\ HexAt(s, (1..4) \cup (6..9))

IsActionReplay(s) == Len(s) = 8 /\ HexAt(s, 1..8)

IsAddressData(s) == Len(s) = 9 /\ s[7] = "=" /\ HexAt(s, (1..6) \cup (8..9))

IsAddressCompareData(s) ==
    Len(s) = 12 /\ s[7] = "=" /\ s[10] = "?"
    /\ HexAt(s, (1..6) \cup (8..9) \cup (11..12))

-----------------------------------------------------------------------------
(* Claims *)

\* C2, as stated: the decoder returns true exactly for the three formats Game
\* Genie 'xxxx-xxxx', Pro Action Replay 'xxxxxxxx' and 'aaaaaa=dd', and false
\* for every other string.
C2_ThreeFormatsOnly ==
    decodeResult # "pending" =>
        (decodeResult = "true" <=>
            IsGameGenie(codeIn) \/ IsActionReplay(codeIn) \/ IsAddressData(codeIn))

\* C2, amended: the decoder returns true exactly for four formats, the three
\* above and 'aaaaaa=cc?dd' (address=compare?data), and false for every other
\* string.
C2_FourFormats ==
    decodeResult # "pending" =>
        (decodeResult = "true" <=>
            \/ IsGameGenie(codeIn)
            \/ IsActionReplay(codeIn)
            \/ IsAddressData(codeIn)
            \/ IsAddressCompareData(codeIn))

\* an address=compare?data code has been accepted
C2_Witness == decodeResult = "true" /\ IsAddressCompareData(codeIn)

\* C1, as stated: after loadFileAtPath has loaded a game whose manifest names a
\* coprocessor firmware that the BIOS directory does not hold, and the core's
\* required open of that firmware has returned no file, the call has returned
\* NO and the caller's NSError, when an error pointer was passed, is an error
\* with code OEGameCoreCouldNotLoadROMError that names
\* '<identifier, lower-cased>.rom'.
C1_MissingFirmwareReported ==
    (/\ pc = "idle"
     /\ lastOp = "loadFileAtPath"
     /\ superFamicom.architecture # "none"
     /\ ~biosHasFile
     /\ fwReqMissed
     /\ errSupplied)
    => /\ loadResult = "NO"
       /\ errOut.kind = "error"
       /\ errOut.code = "OEGameCoreCouldNotLoadROMError"
       /\ errOut.missing = downcase(superFamicom.identifier) \o <<".","r","o","m">>

\* C3: once setCheat or a successful loadFileAtPath has run loadCheats,
\* emulator->cheats has been called exactly once by that operation, and the
\* list it was given holds the decoded form of each active code that decodes,
\* once per such code, and nothing else; the codes that do not decode are left
\* out.
C3_CheatsForwarded ==
    (\/ lastOp = "setCheat"
     \/ lastOp = "loadFileAtPath" /\ pc = "idle" /\ loadResult = "YES")
    => LET good == {c \in activeCheats : DecodedCheats[c].ok}
           forms == {DecodedCheats[c].code : c \in CheatCodes}
       IN  /\ cheatsCalls = 1
           /\ \A i \in 1..Len(cheatList) : cheatList[i] \in forms
           /\ \A d \in forms :
                 Cardinality({i \in 1..Len(cheatList) : cheatList[i] = d})
                    = Cardinality({c \in good : DecodedCheats[c].code = d})

\* setCheat has forwarded two decoded codes while a code that does not decode
\* is active
C3_Witness ==
    /\ lastOp = "setCheat"
    /\ cheatsCalls = 1
    /\ Len(cheatList) >= 2
    /\ \E c \in activeCheats : ~DecodedCheats[c].ok

\* C4, as stated: when an open with required = true has returned no file
\* during loadFileAtPath, whatever the file (ipl.rom and boards.bml included),
\* failedLoadingAtLeastOneRequiredFile is set, and loadFileAtPath returns NO.
C4_RequiredMissFailsLoad ==
    (lastOp = "loadFileAtPath" /\ reqMissed)
    => /\ failedLoadingAtLeastOneRequiredFile
       /\ (pc = "idle" => loadResult = "NO")

\* C7, as stated: whenever the hide_overscan option is stored, program->overscan
\* is its negation, and aspectSize is 64:49 when the option is on and 8:7 when
\* it is off.
C7_AspectFollowsOption ==
    displayModes[OverscanKey] # "nil"
    => /\ overscan = ~boolValue(displayModes[OverscanKey])
       /\ aspectSize = IF boolValue(displayModes[OverscanKey])
                       THEN <<64, 49>> ELSE <<8, 7>>

\* C7, amended: the same holds whenever the operation that ran last is
\* changeDisplayWithMode or loadFileAtPath, the two that run configEmulator;
\* setDisplayModeInfo stores the option and leaves program->overscan as it was.
C7_AspectFollowsOptionOnceConfigured ==
    (/\ displayModes[OverscanKey] # "nil"
     /\ lastOp \in {"changeDisplayWithMode", "loadFileAtPath"})
    => /\ overscan = ~boolValue(displayModes[OverscanKey])
       /\ aspectSize = IF boolValue(displayModes[OverscanKey])
                       THEN <<64, 49>> ELSE <<8, 7>>

\* the overscan area has been switched on from the display menu, and the
\* aspect hint is 8:7
C7_Witness ==
    /\ lastOp = "changeDisplayWithMode"
    /\ displayModes[OverscanKey] = "NO"
    /\ overscan
    /\ aspectSize = <<8, 7>>

\* C5, as stated: bufferSize is 512x480, every position videoFrame writes has
\* x < 512 and y < 480, and the screenRect it publishes lies within 512x480,
\* whatever the width, height, pitch and overscan setting of the frame.
C5_FrameWithinBuffer ==
    /\ bufferSize = <<512, 480>>
    /\ wroteAny(frame) => lastWritten(frame)[1] < 512 /\ lastWritten(frame)[2] < 480
    /\ screenRect[1] + screenRect[3] <= 512
    /\ screenRect[2] + screenRect[4] <= 480

\* C8: saveStateToFileAtPath and loadStateFromFileAtPath call the completion
\* handler exactly once, with (YES, nil) or with (NO, an error); it is the
\* failure pair exactly when the file could not be written or read or
\* unserialize rejected the data, and the error of a rejection is
\* OEGameCoreCouldNotLoadStateError. deserializeState returns NO exactly when
\* unserialize fails, and then, and only then, stores that error through
\* outError when outError is given.
C8_CompletionOnceWithPair ==
    /\ stateOp.op \in {"save", "load"} =>
          /\ Len(blockCalls) = 1
          /\ \/ blockCalls[1] = <<TRUE, NoStateError>>
             \/ blockCalls[1][1] = FALSE /\ blockCalls[1][2].kind = "error"
          /\ blockCalls[1][1] = FALSE <=>
                (~stateOp.ioOk \/ (stateOp.reached /\ ~stateOp.accepted))
          /\ (stateOp.reached /\ ~stateOp.accepted) =>
                blockCalls[1][2] = CouldNotLoadStateError
    /\ stateOp.op = "deserialize" =>
          /\ stateOp.res = stateOp.accepted
          /\ stateOp.supplied =>
                (stateOp.outError = CouldNotLoadStateError <=> ~stateOp.accepted)
          /\ stateOp.outError \in {CouldNotLoadStateError, NoStateError}
          /\ ~stateOp.supplied => stateOp.outError = NoStateError

\* loadStateFromFileAtPath has read a file that unserialize rejected, and the
\* handler has been called once with NO and OEGameCoreCouldNotLoadStateError
C8_Witness ==
    /\ stateOp.op = "load"
    /\ stateOp.reached
    /\ ~stateOp.accepted
    /\ blockCalls = << <<FALSE, CouldNotLoadStateError>> >>

\* C9, as stated: serializeStateWithError returns exactly the bytes of the
\* core's serializer, deserializeState gives the core exactly the bytes it
\* received (same length, same content), and so a load of a file written by a
\* save gives the core the bytes the save took from it.
C9_BytesPassUnmodified ==
    /\ stateOp.op \in {"serialize", "save"} =>
          /\ stateOp.data.head = coreState
          /\ stateOp.data.more = 0
    /\ stateOp.reached => stateOp.given = stateOp.data

\* the file name without its final extension: what precedes its last '.'
withoutFinalExtension(name) ==
    LET P == {i \in 1..Len(name) : name[i] = "."}
    IN  IF P = {} THEN name
        ELSE SubSeq(name, 1, (CHOOSE i \in P : \A j \in P : j <= i) - 1)

\* C10, as stated: whenever save.ram has been opened and there is a battery
\* saves directory, the path opened is
\* <battery saves directory>/<ROM file name without its final extension>.srm,
\* whatever the ROM's directory and file name.
C10_SavePathFromRomName ==
    (savePath # NoPath /\ save # NoPath)
    => savePath = save \o <<"/">> \o withoutFinalExtension(romFile.name)
                    \o <<".","s","r","m">>

\* the pad, with a game loaded now and then
Push == \E b \in Buttons, player \in Players : DidPushSNESButton(b, player)

Release == \E b \in Buttons, player \in Players : DidReleaseSNESButton(b, player)

LoadBeginMario == LoadFileAtPathBegin("mario", FALSE)

LoadEndNoError == LoadFileAtPathEnd(FALSE)

NextInput == Push \/ Release \/ InputPoll \/ LoadBeginMario \/ LoadEndNoError

SpecInput == Init /\ [][NextInput]_vars

\* cores created, used and released in one process
NewCore == \E c \in CoreIds : CoreInit(c)

Dealloc == \E c \in CoreIds : CoreDealloc(c)

Use == \E c \in CoreIds : CoreUse(c)

NextLife == NewCore \/ Dealloc \/ Use

SpecLife == Init /\ [][NextLife]_vars

\* the host setting the display modes, validated
NextModeInfo == \E info \in DisplayModeInfos : SetDisplayModeInfoChecked(info)

SpecModeInfo == Init /\ [][NextModeInfo]_vars

-----------------------------------------------------------------------------
(* C11: whenever the core opens "time.rtc" for the loaded Super Famicom game,
   the open returns a file (the clock file <ROM base name>.rtc) instead of
   no file. *)
C11_ClockFileServed ==
    lastOpen.name = "time.rtc" => lastOpen.returned

(* C12: a poll of (port, Gamepad, i) returns 1 when the last event for player
   port+1 and button buttonMap[i] since the last loadFileAtPath was a push and
   0 when it was a release or there was none (so an event for one pair leaves
   the value of every other pair as it was); the 12 input ids name 12 distinct
   buttons; a poll for another device returns 0. *)
C12_PollFollowsLastEvent ==
    /\ \A port \in Ports, i \in InputIds :
          inputPoll(pad, port, "Gamepad", i)
             = (IF lastEvent[port][buttonMap[i + 1]] = "push" THEN 1 ELSE 0)
    /\ polled # NoPoll
          => \A port \in Ports, i \in InputIds :
                /\ polled[port]["Gamepad"][i]
                      = (IF lastEvent[port][buttonMap[i + 1]] = "push" THEN 1 ELSE 0)
                /\ \A device \in Devices \ {"Gamepad"} : polled[port][device][i] = 0
    /\ Len(buttonMap) = 12
    /\ \A i, j \in InputIds : buttonMap[i + 1] = buttonMap[j + 1] => i = j
    /\ \A i \in InputIds : buttonMap[i + 1] \in Buttons

\* with a game loaded, player 2's A is pushed and player 1's B released, and
\* the inputs have been polled: input 5 (A) of port 1 as 1
C12_Witness ==
    /\ lastEvent[1]["A"] = "push"
    /\ lastEvent[0]["B"] = "release"
    /\ polled # NoPoll
    /\ polled[1]["Gamepad"][5] = 1
    /\ superFamicom.location = "mario"

(* C13: right after Program::loadSuperFamicom has loaded a ROM, the game
   record (title, region, manifest, verified flag, firmware buffer) is the one
   a Program that has loaded nothing before would hold for that ROM. *)
C13_RecordDeterminedByRom ==
    (pc = "loading" /\ opens = 0 /\ superFamicom.location \in Locations)
    => superFamicom = loadSuperFamicom(NoGame, superFamicom.location)

(* C14: while a game whose title requires the accurate PPU renderer is loaded
   (from its power-on at the end of loadFileAtPath until the next load),
   Hacks/PPU/Fast is false, whatever display-mode changes the host makes. *)
C14_AccuratePpuKept ==
    (/\ pc = "idle"
     /\ loadResult = "YES"
     /\ superFamicom.title \in {"AIR STRIKE PATROL", "DESERT FIGHTER",
                                "SFC クレヨンシンチャン"})
    => config["Hacks/PPU/Fast"] = "false"

(* C15: once a BSNESGameCore is deallocated, the emulator object and the
   Program object its init allocated have each been deleted exactly once, and
   no object is ever deleted twice or used after its deletion. *)
C15_DeletedOnceByDealloc ==
    /\ \A c \in CoreIds :
          /\ cores[c] = "dead" => heap[c] = [emulator |-> 1, program |-> 1]
          /\ heap[c].emulator <= 1
          /\ heap[c].program <= 1
    /\ ~staleUse

-----------------------------------------------------------------------------
(* The Game Genie layout, stated by letters: the 24 low bits of the
   substituted code, from the highest bit, and the 24 bits of the address *)

GenieTable == <<"d","f","4","7","0","9","1","5","6","b","c","8","a","2","3","e">>

EncodedLayout == <<"i","j","k","l", "q","r","s","t", "o","p","a","b",
                   "c","d","u","v", "w","x","e","f", "g","h","m","n">>

AddressLayout == <<"a","b","c","d", "e","f","g","h", "i","j","k","l",
                   "m","n","o","p", "q","r","s","t", "u","v","w","x">>

\* the eight digits of a code 'xxxx-xxxx' after the substitution
Substituted(s) ==
    [i \in 1..8 |->
        LET ch == IF i <= 4 THEN s[i] ELSE s[i + 1]
        IN  HexDigits[CHOOSE k \in 1..16 : GenieTable[k] = ch]]

\* the bit at place j (1: the highest) of the 24 low bits of the digits r
LayoutBit(r, j) == (HexVal(r[3 + ((j - 1) \div 4)]) \div Pow2(3 - ((j - 1) % 4))) % 2

\* the bit of the address at place j: the encoded bit that carries its letter
AddressBit(r, j) ==
    LayoutBit(r, CHOOSE e \in 1..24 : EncodedLayout[e] = AddressLayout[j])

\* 'aaaaaa=dd' for a code 'xxxx-xxxx'
GenieExpected(s) ==
    LET r == Substituted(s)
    IN  [n \in 1..6 |->
            HexDigits[1 + 8 * AddressBit(r, 4 * n - 3) + 4 * AddressBit(r, 4 * n - 2)
                        + 2 * AddressBit(r, 4 * n - 1) + AddressBit(r, 4 * n)]]
        \o <<"=">> \o <<r[1], r[2]>>

GenieInputs == { s \in CheatInputs : IsGameGenie(s) }

GenieDecoded == [s \in GenieInputs |-> OEBSNESCheatDecodeSNES(s).code]

(* C17: a Game Genie code 'xxxx-xxxx' of hex digits decodes to 'aaaaaa=dd'
   where dd is the top byte of the substituted value (table df4709156bc8a23e
   -> 0123456789abcdef) and aaaaaa its low 24 bits moved from the layout
   'ijkl qrst opab cduv wxef ghmn' to 'abcd efgh ijkl mnop qrst uvwx'; two
   different codes never decode to the same address and data. *)
C17_GameGenieDecoded ==
    /\ (decodeResult # "pending" /\ IsGameGenie(codeIn))
       => /\ decodeResult = "true"
          /\ code = GenieExpected(codeIn)
          /\ \A other \in GenieInputs : other # codeIn => GenieDecoded[other] # code
    /\ \A i, j \in 1..16 : GenieFrom[i] = GenieFrom[j] => i = j
    /\ \A i, j \in 1..24 : GenieSrcBit[i] = GenieSrcBit[j] => i = j

\* a code whose digits and address bits are all moved: 6bc8-a23e with its
\* last digit replaced by 'f', decoded
C17_Witness ==
    /\ decodeResult = "true"
    /\ codeIn = <<"6","b","c","8","-","a","2","3","f">>
    /\ code = <<"3","8","a","7","b","7","=","8","9">>

(* C18: an 8-hex-digit Pro Action Replay code h1..h8 decodes to
   h1..h6 '=' h7h8; and the host's code 'h1..h6:h7h8' of type "Action Replay"
   reaches the decoder as h1..h8 and so decodes to the same result. *)
C18_ActionReplayDecoded ==
    (decodeResult # "pending" /\ IsActionReplay(codeIn))
    => /\ decodeResult = "true"
       /\ code = SubSeq(codeIn, 1, 6) \o <<"=">> \o SubSeq(codeIn, 7, 8)
       /\ LET host == SubSeq(codeIn, 1, 6) \o <<":">> \o SubSeq(codeIn, 7, 8)
              cheats == setCheatActive({}, host, "Action Replay", TRUE)
          IN  /\ cheats # {}
              /\ \A cheat \in cheats : decodedCheat(cheat) = [ok |-> TRUE, code |-> code]

\* 7e001f9a with its first digit replaced by 'f', decoded
C18_Witness ==
    /\ decodeResult = "true"
    /\ codeIn = <<"f","e","0","0","1","f","9","a">>
    /\ code = <<"f","e","0","0","1","f","=","9","a">>

(* C19: a string the decoder has successfully decoded is in decoded form:
   decoding it once more returns true and leaves it as it is. *)
C19_DecodedIsFixed ==
    decodeCalls = 2 => (decodeResult = "true" /\ code = firstCode)

\* a Game Genie code decoded and its output decoded again
C19_Witness ==
    /\ decodeCalls = 2
    /\ IsGameGenie(codeIn)
    /\ IsAddressData(firstCode)
    /\ code = firstCode

(* C20: after setDisplayModeInfo with any dictionary, the stored map holds
   exactly the four known keys, each with a value of its expected class
   (NSNumber for BlurEmulation, ColorEmulation and NoSpriteLimit, NSString for
   Mode7/Scale): the supplied value when it has that class, the default
   otherwise. *)
C20_StoredModesValidated ==
    modeInfoIn.called =>
       /\ DOMAIN validatedModes = {BlurKey, ColorKey, SpriteKey, Mode7Key}
       /\ \A k \in DOMAIN validatedModes :
             LET expected == IF k = Mode7Key THEN "NSString" ELSE "NSNumber"
                 supplied == k \in DOMAIN modeInfoIn.info
                             /\ modeInfoIn.info[k].class = expected
             IN  /\ validatedModes[k].class = expected
                 /\ supplied => validatedModes[k] = modeInfoIn.info[k]
                 /\ ~supplied =>
                       \E i \in 1..Len(defaultValues) :
                          /\ defaultValues[i].key = k
                          /\ validatedModes[k] = defaultValues[i].defaultValue

\* a dictionary with a string for BlurEmulation, no ColorEmulation, a number
\* for Mode7/Scale, NoSpriteLimit set and an unknown key
C20_Witness ==
    /\ modeInfoIn.called
    /\ DOMAIN modeInfoIn.info = {BlurKey, SpriteKey, Mode7Key, ExtraKey}
    /\ modeInfoIn.info[BlurKey].class = "NSString"
    /\ modeInfoIn.info[Mode7Key] = NumberYES
    /\ modeInfoIn.info[SpriteKey] = NumberYES
    /\ validatedModes[SpriteKey] = NumberYES
    /\ validatedModes[BlurKey] = NumberNO
    /\ validatedModes[Mode7Key].value = "1"


\* C21: with the overscan area hidden, videoFrame skips the first 8*m source
\* lines, copies height - 16*m lines and publishes a screenRect of that height,
\* where m = height div 240, and 16*m never exceeds the height it is taken
\* from; with the overscan area shown it starts at the first source line and
\* copies all of them.
C21_OverscanLinesRemoved ==
    frame # NoFrame =>
        LET m == frame.given \div 240
        IN  /\ screenRect[4] = frame.height
            /\ IF ~frame.over
               THEN /\ frame.offset = 8 * m * frame.stride
                    /\ 16 * m <= frame.given
                    /\ frame.height = frame.given - 16 * m
               ELSE /\ frame.offset = 0
                    /\ frame.height = frame.given

\* a 480-line frame delivered with the overscan area hidden: 16 lines skipped,
\* 448 copied
C21_Witness ==
    /\ frame.given = 480
    /\ ~frame.over
    /\ frame.offset = 16 * frame.stride
    /\ frame.height = 448
    /\ screenRect[4] = 448


LoadBeginTitles == \E l \in {"mario", "patrol", "swiv"} : LoadFileAtPathBegin(l, FALSE)

\* games with and without per-title overrides loaded one after another in one
\* core, the display options changed in between
NextHacks == ChangeDisplay \/ LoadBeginTitles \/ LoadEnd

SpecHacks == Init /\ [][NextHacks]_vars

\* the settings Program::load may override
HackNames == {"Hacks/PPU/Fast", "Hacks/DSP/Fast", "Hacks/PPU/RenderCycle", "Hacks/Entropy"}

\* the configuration a core holds after loadFileAtPath of a game when nothing
\* was configured before: configEmulator with the display options, then the
\* overrides of the game's title and region
FreshLoadConfig(modes, title, region) ==
    hackOverrides(configEmulatorConfig([n \in ConfigNames |-> "default"], modes),
                  title, region)

(* C22: when loadFileAtPath has returned YES, each of Hacks/PPU/Fast,
   Hacks/DSP/Fast, Hacks/PPU/RenderCycle and Hacks/Entropy has the value it
   would have in a core that loaded this game first, with the same display
   options: the games loaded earlier make no difference. *)
C22_HacksIndependentOfHistory ==
    (pc = "idle" /\ lastOp = "loadFileAtPath" /\ loadResult = "YES")
    => \A n \in HackNames :
          config[n] = FreshLoadConfig(displayModes, superFamicom.title,
                                      superFamicom.region)[n]


CheatShared ==
    \E c \in {SharedCheat, <<"D","E","A","D","-","B","E","E","F">>},
       type \in CheatTypes, enabled \in BOOLEAN : SetCheat(c, type, enabled)

\* two cheats with a code in common switched on and off, and games loaded
NextSharedCheats == CheatShared \/ LoadBeginPlain \/ LoadEnd

SpecSharedCheats == Init /\ [][NextSharedCheats]_vars

\* the cheats whose latest setCheat call had the given enabled flag
CheatsLastSet(enabled) ==
    {c \in RawCheats : lastSetCheat[c].called /\ lastSetCheat[c].enabled = enabled}

\* the codes of a cheat, as its latest setCheat call split them
CodesOf(c) == setCheatCodes(c, lastSetCheat[c].type)

\* the codes forwarded to the core by the latest emulator->cheats call
Forwarded == {cheatList[i] : i \in 1..Len(cheatList)}

(* C23: after any sequence of setCheat calls, the list last given to
   emulator->cheats holds the decoded form of every code that decodes of every
   cheat whose latest setCheat call had enabled = YES, and no decoded form
   that comes only from codes of cheats whose latest call had enabled = NO. *)
C23_EnabledCheatsForwarded ==
    lastOp = "setCheat"
    => LET on == UNION {CodesOf(c) : c \in CheatsLastSet(TRUE)}
           off == UNION {CodesOf(c) : c \in CheatsLastSet(FALSE)}
           onForms == {DecodedCheats[k].code : k \in {j \in on : DecodedCheats[j].ok}}
           offForms == {DecodedCheats[k].code : k \in {j \in off : DecodedCheats[j].ok}}
       IN  /\ onForms \subseteq Forwarded
           /\ (offForms \ onForms) \cap Forwarded = {}


(* C24: when loadFileAtPath runs on a core whose display options were never
   set (no setDisplayModeInfo and no display-mode change), the configuration
   in force is the one of the defaults that setDisplayModeInfo declares:
   BlurEmulation off, ColorEmulation on, NoSpriteLimit off, and the overscan
   area hidden, with program->overscan false and an aspect hint of 64:49. *)
C24_DefaultsWithoutModeInfo ==
    (lastOp = "loadFileAtPath" /\ \A k \in DisplayKeys : displayModes[k] = "nil")
    => /\ \A k \in CoreKeys :
             config[keyNoPrefix(k)] = BoolString(boolValue(DisplayDefaults[k]))
       /\ ~overscan
       /\ aspectSize = <<64, 49>>


SetMode7Info == \E info \in Mode7Infos : SetDisplayModeInfoChecked(info)

ChangeMode == \E displayMode \in DisplayModeNames : ChangeDisplayWithModeValue(displayMode)

\* the display mode info supplied, then options chosen from the display menu
NextMode7 == SetMode7Info \/ ChangeMode

SpecMode7 == Init /\ [][NextMode7]_vars

\* the HD Mode 7 options displayModes reports as selected
SelectedScales ==
    LET list == displayModesList(validatedModes)
    IN  {i \in 1..Len(list) : list[i].key = Mode7Key /\ list[i].state = NumberYES}

(* C25: once setDisplayModeInfo has run, whatever dictionary it was given and
   whatever changeDisplayWithMode calls followed, exactly one of the eight HD
   Mode 7 scale options of displayModes is in the selected state. *)
C25_OneScaleSelected ==
    modeInfoIn.called => Cardinality(SelectedScales) = 1


\* the number of lines videoFrame shows of a 240-line frame
VisibleLines == frameHeight(240, overscan)

(* C26: for both overscan settings the ratio aspectSize returns is that of a
   picture 256 pixels wide, each pixel 8:7, over the visible lines, that is
   (256*8/7) : 224 with the overscan area hidden and (256*8/7) : 240 with it
   shown; as whole numbers, width * 7 * lines = 256 * 8 * height. *)
C26_AspectIsDisplayRatio ==
    /\ VisibleLines = IF overscan THEN 240 ELSE 224
    /\ aspectSize[1] * 7 * VisibleLines = 256 * 8 * aspectSize[2]


LoadBeginAgain == \E l \in {"mario", "pilot"}, hasFile \in BOOLEAN : LoadFileAtPathBegin(l, hasFile)

\* a game that needs no firmware and one that needs a dump, loaded one after
\* another, the dump present or not
NextReload == LoadBeginAgain \/ Open \/ LoadEnd

SpecReload == Init /\ [][NextReload]_vars

(* C27: the failure indicators tell of the latest load only. Both are clear
   when Program::load starts calling back, whatever the load before left; a
   loadFileAtPath during which every required open returned a file returns
   YES, also right after one that returned NO; and a loadFileAtPath that
   returns NO has connected no controller and forwarded no cheat list. *)
C27_IndicatorsOfLatestLoad ==
    /\ (pc = "loading" /\ opens = 0)
       => ~failedLoadingAtLeastOneRequiredFile /\ lastFailedBiosLoad = NoBios
    /\ (pc = "idle" /\ lastOp = "loadFileAtPath" /\ ~reqMissed)
       => loadResult = "YES" /\ connectCalls = 2 /\ cheatsCalls = 1
    /\ (pc = "idle" /\ lastOp = "loadFileAtPath" /\ loadResult = "NO")
       => connectCalls = 0 /\ cheatsCalls = 0

\* a load has returned NO, and the next one, whose required opens all returned
\* a file, has returned YES and connected the two controllers
C27_Witness ==
    /\ pc = "idle"
    /\ lastOp = "loadFileAtPath"
    /\ prevFailed
    /\ opens > 0
    /\ ~reqMissed
    /\ loadResult = "YES"
    /\ connectCalls = 2
    /\ cheatsCalls = 1

=============================================================================
